---- MODULE Spec2Model ----
(***************************************************************************)
(* A model of the SMTP MCP server: relay-configuration loading and the     *)
(* server start-up (config.ts, index.ts), the audit log (config.ts), and   *)
(* the tool-call handlers (requestHandler.ts).                             *)
(***************************************************************************)
EXTENDS Integers, Sequences, FiniteSets, TLC

\* ------------------------------------------------------------------------
\* Bounds of the model
\* ------------------------------------------------------------------------
MaxServers == 3
MaxParses == 3
MaxAppends == 3
MaxTime == 3
MaxLimit == 2
MaxRecipients == 3
MaxBatch == 2

\* tools.ts 156: "Number of emails to send in each batch (default: 10)".
DefaultBatchSize == 10

VARIABLES
    env,                \* process.env.SMTP_CONFIG_BASE64, as what it decodes to
    cachedSmtpConfig,   \* config.ts: let cachedSmtpConfig
    parses,             \* number of times parseSmtpConfigFromEnv has run
    pc,                 \* runServer's position
    pendingRejection,   \* a rejected promise nobody awaits
    configResp,         \* response of a get-smtp-configs call just made
    logFile,            \* the file LOG_FILE (email-logs.json)
    appender,           \* the logEmailActivity calls in flight, one per caller
    nextId,             \* number of logEmailActivity calls made so far
    appended,           \* ids of the entries whose call returned true
    logsResp,           \* response of a get-email-logs call just made
    emailResp,          \* response of a send-email call just made
    bulkResp,           \* response of a send-bulk-emails call just made
    lastCall,           \* how the tool-call handler's last invocation ended
    bulk                \* the send-bulk-emails request in flight

configVars == <<env, cachedSmtpConfig, parses, pc, pendingRejection>>

logVars == <<logFile, appender, nextId, appended>>

respVars == <<configResp, logsResp, emailResp, bulkResp, lastCall>>

vars == <<configVars, logVars, respVars, bulk>>

\* ------------------------------------------------------------------------
\* The audit log's state (config.ts)
\* ------------------------------------------------------------------------

\* The callers of logEmailActivity whose calls may overlap.
Appenders == 1..2

\* EmailLogEntry: id stands for the fields that tell entries apart
\* (recipient, subject), timestamp for the instant its ISO string denotes.
Entries == [id : 1..MaxAppends, timestamp : 1..MaxTime, success : BOOLEAN]

NoEntry == [id |-> 0, timestamp |-> 0, success |-> FALSE]

Idle == [at |-> "idle", logs |-> <<>>, entry |-> NoEntry]

\* The file: absent, holding a JSON array of entries, or (after a write that
\* failed half way) holding something readJson cannot parse.
NoLogFile == [exists |-> FALSE, corrupt |-> FALSE, entries |-> <<>>]

NoLogsResp ==
    [outcome |-> "none", success |-> FALSE, result |-> <<>>,
     hasLimit |-> FALSE, limit |-> 0, hasFilter |-> FALSE,
     filterBySuccess |-> FALSE, readOk |-> FALSE, persisted |-> <<>>]

\* ------------------------------------------------------------------------
\* The tool-call handler's state (requestHandler.ts)
\* ------------------------------------------------------------------------

\* tools.ts 5-203: the tools createToolDefinitions registers.
ToolNames == {"send-email", "send-bulk-emails", "get-smtp-configs", "get-email-logs"}

NoResp == [outcome |-> "none", success |-> FALSE, configs |-> <<>>]

NoEmailResp == [outcome |-> "none", success |-> FALSE, attempted |-> FALSE]

NoBulkResp ==
    [outcome |-> "none", success |-> FALSE, totalSent |-> 0, totalFailed |-> 0,
     hasFailures |-> FALSE, failures |-> <<>>,
     aborted |-> FALSE, recipients |-> 0, attempts |-> 0]

NoCall == [tool |-> "none", outcome |-> "none", flag |-> "none"]

\* The handler returned a response whose success field is `success`.
Returned(tool, success) ==
    [tool |-> tool, outcome |-> "returned",
     flag |-> IF success THEN "true" ELSE "false"]

\* The handler threw.
Thrown(tool) == [tool |-> tool, outcome |-> "thrown", flag |-> "none"]

NoBulk ==
    [state |-> "Idle", hasRecipients |-> FALSE, recipients |-> 0, batchSize |-> 0,
     next |-> 1, inBatch |-> 0, pauses |-> 0,
     totalSent |-> 0, totalFailed |-> 0, failures |-> <<>>]

InitRespVars ==
    /\ configResp = NoResp
    /\ logsResp = NoLogsResp
    /\ emailResp = NoEmailResp
    /\ bulkResp = NoBulkResp
    /\ lastCall = NoCall

InitLogVars ==
    /\ logFile = NoLogFile
    /\ appender = [a \in Appenders |-> Idle]
    /\ nextId = 0
    /\ appended = {}

\* ------------------------------------------------------------------------
\* Relay configuration (config.ts)
\* ------------------------------------------------------------------------

\* SmtpServerConfig, reduced to the fields the loading code reads or writes
\* plus one it must leave alone.
ServerRecords == [id : 1..MaxServers, secure : BOOLEAN, isDefault : BOOLEAN]

\* Server lists with unique ids (the id of the i-th loaded server is i).
ServerLists ==
    UNION { { s \in [1..n -> ServerRecords] : \A i \in 1..n : s[i].id = i }
            : n \in 0..MaxServers }

\* What the environment variable can hold:
\*   unset     - no SMTP_CONFIG_BASE64
\*   badJson   - JSON.parse throws
\*   noServers - an object without (or with a falsy) smtpServers
\*   notArray  - smtpServers is truthy but not an array
\*   array     - smtpServers is an array of server objects
Envs ==
    { [kind |-> k, smtpServers |-> <<>>] :
          k \in {"unset", "badJson", "noServers", "notArray"} }
    \cup { [kind |-> "array", smtpServers |-> s] : s \in ServerLists }

HasDefault(servers) == \E i \in 1..Len(servers) : servers[i].isDefault

NumDefaults(servers) ==
    Cardinality({ i \in 1..Len(servers) : servers[i].isDefault })

\* A plausible slip: the last server is promoted instead of the first.
NormalizeDefaultLast(servers) ==
    IF ~HasDefault(servers) /\ Len(servers) > 0
    THEN [servers EXCEPT ![Len(servers)].isDefault = TRUE]
    ELSE servers

\* A plausible slip: the normalization step is missing.
NormalizeDefaultNone(servers) == servers

\* config.ts 107-114: ensure at least one server is marked as default.
NormalizeDefault(servers) ==
    IF ~HasDefault(servers) /\ Len(servers) > 0
    THEN [servers EXCEPT ![1].isDefault = TRUE]
    ELSE servers

\* config.ts 56-131: the outcome of decoding, parsing and validating.
parseSmtpConfigFromEnv(e) ==
    IF e.kind \in {"unset", "badJson", "notArray"}
    THEN [threw |-> TRUE, smtpServers |-> <<>>]
    ELSE LET servers == IF e.kind = "noServers" THEN <<>> ELSE e.smtpServers
         IN  IF Len(servers) = 0
             THEN [threw |-> TRUE, smtpServers |-> <<>>]
             ELSE [threw |-> FALSE, smtpServers |-> NormalizeDefault(servers)]

NullConfig == [loaded |-> FALSE, smtpServers |-> <<>>]

\* config.ts 139-162, getSmtpConfigs: does this call run the parser?
GetSmtpConfigsParses(cache) == ~cache.loaded

\* getSmtpConfigs: does this call throw?
GetSmtpConfigsThrows(cache, e) ==
    ~cache.loaded /\ parseSmtpConfigFromEnv(e).threw

\* getSmtpConfigs: the cache after the call.
GetSmtpConfigsCache(cache, e) ==
    IF cache.loaded \/ parseSmtpConfigFromEnv(e).threw
    THEN cache
    ELSE [loaded |-> TRUE, smtpServers |-> parseSmtpConfigFromEnv(e).smtpServers]

\* ------------------------------------------------------------------------
\* Server start-up (index.ts, runServer)
\* ------------------------------------------------------------------------

InitStartup ==
    /\ env \in Envs
    /\ cachedSmtpConfig = NullConfig
    /\ parses = 0
    /\ pc = "boot"
    /\ pendingRejection = FALSE
    /\ InitLogVars
    /\ InitRespVars
    /\ bulk = NoBulk

\* index.ts 36-72: everything runServer does before its first await. The call
\* getSmtpConfigs() is not awaited: when it throws, the rejected promise is
\* left floating and runServer goes on.
RunServerInit ==
    /\ pc = "boot"
    /\ cachedSmtpConfig' = GetSmtpConfigsCache(cachedSmtpConfig, env)
    /\ parses' = IF GetSmtpConfigsParses(cachedSmtpConfig) THEN parses + 1 ELSE parses
    /\ pendingRejection' = GetSmtpConfigsThrows(cachedSmtpConfig, env)
    /\ pc' = "setup"
    /\ UNCHANGED <<env, logVars, respVars, bulk>>

\* index.ts 72-76: handlers are set; the transport is created and connected.
\* A failure to connect is caught at line 79 and ends the process.
RunServerConnect ==
    /\ pc = "setup"
    /\ \E connected \in BOOLEAN :
           pc' = IF connected THEN "connected" ELSE "exited"
    /\ UNCHANGED <<env, cachedSmtpConfig, parses, pendingRejection, logVars, respVars, bulk>>

\* index.ts 78: "SMTP MCP Server started successfully".
RunServerStarted ==
    /\ pc = "connected"
    /\ pc' = "started"
    /\ UNCHANGED <<env, cachedSmtpConfig, parses, pendingRejection, logVars, respVars, bulk>>

\* The runtime's handling of the floating rejection, once the microtask queue
\* has drained: it ends the process (the default since Node 15) or only warns.
UnhandledRejection ==
    /\ pendingRejection
    /\ pc \in {"setup", "connected", "started"}
    /\ pendingRejection' = FALSE
    /\ \E crash \in BOOLEAN :
           pc' = IF crash THEN "exited" ELSE pc
    /\ UNCHANGED <<env, cachedSmtpConfig, parses, logVars, respVars, bulk>>

\* requestHandler.ts 231-263, handleGetSmtpConfigs.
HandleGetSmtpConfigs ==
    /\ pc = "started"
    /\ GetSmtpConfigsParses(cachedSmtpConfig) => parses < MaxParses
    /\ cachedSmtpConfig' = GetSmtpConfigsCache(cachedSmtpConfig, env)
    /\ parses' = IF GetSmtpConfigsParses(cachedSmtpConfig) THEN parses + 1 ELSE parses
    /\ configResp' =
         IF GetSmtpConfigsThrows(cachedSmtpConfig, env)
         THEN [outcome |-> "returned", success |-> FALSE, configs |-> <<>>]
         ELSE [outcome |-> "returned", success |-> TRUE,
               configs |-> GetSmtpConfigsCache(cachedSmtpConfig, env).smtpServers]
    /\ lastCall' = Returned("get-smtp-configs", configResp'.success)
    /\ logsResp' = NoLogsResp
    /\ emailResp' = NoEmailResp
    /\ bulkResp' = NoBulkResp
    /\ UNCHANGED <<env, pc, pendingRejection, logVars, bulk>>

NextStartup ==
    \/ RunServerInit
    \/ RunServerConnect
    \/ RunServerStarted
    \/ UnhandledRejection
    \/ HandleGetSmtpConfigs

SpecStartup == InitStartup /\ [][NextStartup]_vars

\* ------------------------------------------------------------------------
\* Audit log (config.ts, logEmailActivity and getEmailLogs)
\* ------------------------------------------------------------------------

\* config.ts 167-170: logEmailActivity(entry) is called and suspends at
\* await fs.ensureDir.
LogCall(a) ==
    /\ appender[a].at = "idle"
    /\ nextId < MaxAppends
    /\ \E t \in 1..MaxTime, ok \in BOOLEAN :
           appender' = [appender EXCEPT ![a] =
               [at |-> "ensureDir", logs |-> <<>>,
                entry |-> [id |-> nextId + 1, timestamp |-> t, success |-> ok]]]
    /\ nextId' = nextId + 1
    /\ UNCHANGED <<configVars, logFile, appended, respVars, bulk>>

\* config.ts 170-175: ensureDir settles; on failure the catch at 185 returns
\* false, else the call suspends at await fs.pathExists.
LogEnsureDir(a) ==
    /\ appender[a].at = "ensureDir"
    /\ \E ok \in BOOLEAN :
           appender' = [appender EXCEPT ![a] =
               IF ok THEN [@ EXCEPT !.at = "pathExists"] ELSE Idle]
    /\ UNCHANGED <<configVars, logFile, nextId, appended, respVars, bulk>>

\* A plausible slip: the entry replaces what was read instead of being pushed.
PushEntryDropsLogs(logs, entry) == <<entry>>

\* config.ts 180: logs.push(entry).
PushEntry(logs, entry) == Append(logs, entry)

\* config.ts 175-183: pathExists settles. With a file the call suspends at
\* await fs.readJson; without one it pushes the entry onto [] and suspends at
\* await fs.writeJson.
LogPathExists(a) ==
    /\ appender[a].at = "pathExists"
    /\ appender' = [appender EXCEPT ![a] =
           IF logFile.exists
           THEN [@ EXCEPT !.at = "readJson"]
           ELSE [@ EXCEPT !.at = "writeJson",
                          !.logs = PushEntry(<<>>, appender[a].entry)]]
    /\ UNCHANGED <<configVars, logFile, nextId, appended, respVars, bulk>>

\* config.ts 176-183: readJson settles; on failure (an unreadable or
\* unparseable file) the catch returns false, else the entry is pushed onto
\* what was read and the call suspends at await fs.writeJson.
LogReadJson(a) ==
    /\ appender[a].at = "readJson"
    /\ \E ok \in BOOLEAN :
           appender' = [appender EXCEPT ![a] =
               IF ok /\ logFile.exists /\ ~logFile.corrupt
               THEN [@ EXCEPT !.at = "writeJson",
                              !.logs = PushEntry(logFile.entries,
                                                 appender[a].entry)]
               ELSE Idle]
    /\ UNCHANGED <<configVars, logFile, nextId, appended, respVars, bulk>>

\* config.ts 183-184: writeJson settles and the call returns true; on failure
\* the catch returns false, the file being untouched (it could not be opened)
\* or truncated (the write broke off).
LogWriteJson(a) ==
    /\ appender[a].at = "writeJson"
    /\ \E outcome \in {"written", "untouched", "truncated"} :
           /\ logFile' =
                CASE outcome = "written" ->
                       [exists |-> TRUE, corrupt |-> FALSE,
                        entries |-> appender[a].logs]
                  [] outcome = "untouched" -> logFile
                  [] outcome = "truncated" ->
                       [exists |-> TRUE, corrupt |-> TRUE, entries |-> <<>>]
           /\ appended' = IF outcome = "written"
                          THEN appended \cup {appender[a].entry.id}
                          ELSE appended
    /\ appender' = [appender EXCEPT ![a] = Idle]
    /\ UNCHANGED <<configVars, nextId, respVars, bulk>>

\* config.ts 198-212, getEmailLogs: the entries of the file, or [] when there
\* is no file or reading it fails.
getEmailLogs(file) ==
    IF file.exists /\ ~file.corrupt THEN file.entries ELSE <<>>

\* A plausible slip: the filter keeps the entries that do not match.
FilterLogsInverted(logs, hasFilter, filterBySuccess) ==
    IF hasFilter
    THEN SelectSeq(logs, LAMBDA log : log.success # filterBySuccess)
    ELSE logs

\* requestHandler.ts 62-66: filter by success status if specified.
FilterLogs(logs, hasFilter, filterBySuccess) ==
    IF hasFilter
    THEN SelectSeq(logs, LAMBDA log : log.success = filterBySuccess)
    ELSE logs

\* Array.prototype.sort is stable: an entry goes behind the entries that
\* compare before it or equal to it.
RECURSIVE InsertSorted(_, _)
InsertSorted(sorted, log) ==
    IF sorted = <<>> THEN <<log>>
    ELSE IF Head(sorted).timestamp >= log.timestamp
         THEN <<Head(sorted)>> \o InsertSorted(Tail(sorted), log)
         ELSE <<log>> \o sorted

\* requestHandler.ts 69-72: sort by timestamp, newest first.
RECURSIVE SortLogs(_)
SortLogs(logs) ==
    IF logs = <<>> THEN <<>>
    ELSE InsertSorted(SortLogs(SubSeq(logs, 1, Len(logs) - 1)), logs[Len(logs)])

\* A plausible slip: the slice keeps one entry too many.
LimitLogsOffByOne(logs, hasLimit, limit) ==
    IF hasLimit /\ limit # 0 /\ limit > 0
    THEN SubSeq(logs, 1, IF limit + 1 < Len(logs) THEN limit + 1 ELSE Len(logs))
    ELSE logs

\* requestHandler.ts 75-77: if (limit && limit > 0) logs = logs.slice(0, limit).
LimitLogs(logs, hasLimit, limit) ==
    IF hasLimit /\ limit # 0 /\ limit > 0
    THEN SubSeq(logs, 1, IF limit < Len(logs) THEN limit ELSE Len(logs))
    ELSE logs

\* requestHandler.ts 52-108: the get-email-logs case of the tool-call handler.
\* The response also records the request and what was on disk.
HandleGetEmailLogs ==
    /\ pc = "started"
    /\ \E hasLimit \in BOOLEAN, limit \in -1..MaxLimit,
          hasFilter \in BOOLEAN, filterBySuccess \in BOOLEAN :
           /\ ~hasLimit => limit = 0
           /\ ~hasFilter => filterBySuccess = FALSE
           /\ logsResp' =
                [outcome |-> "returned", success |-> TRUE,
                 result |-> LimitLogs(
                     SortLogs(FilterLogs(getEmailLogs(logFile),
                                         hasFilter, filterBySuccess)),
                     hasLimit, limit),
                 hasLimit |-> hasLimit, limit |-> limit,
                 hasFilter |-> hasFilter, filterBySuccess |-> filterBySuccess,
                 readOk |-> ~logFile.corrupt, persisted |-> logFile.entries]
    /\ lastCall' = Returned("get-email-logs", logsResp'.success)
    /\ configResp' = NoResp
    /\ emailResp' = NoEmailResp
    /\ bulkResp' = NoBulkResp
    /\ UNCHANGED <<configVars, logVars, bulk>>

\* A server that has started with a valid one-relay configuration.
RunningConfig ==
    [loaded |-> TRUE,
     smtpServers |-> <<[id |-> 1, secure |-> TRUE, isDefault |-> TRUE]>>]

InitLog ==
    /\ env = [kind |-> "array", smtpServers |-> RunningConfig.smtpServers]
    /\ cachedSmtpConfig = RunningConfig
    /\ parses = 1
    /\ pc = "started"
    /\ pendingRejection = FALSE
    /\ InitLogVars
    /\ InitRespVars
    /\ bulk = NoBulk

NextLog ==
    \/ \E a \in Appenders : LogCall(a)
    \/ \E a \in Appenders : LogEnsureDir(a)
    \/ \E a \in Appenders : LogPathExists(a)
    \/ \E a \in Appenders : LogReadJson(a)
    \/ \E a \in Appenders : LogWriteJson(a)

\* Overlapping logEmailActivity calls in a running server.
SpecLog == InitLog /\ [][NextLog]_vars

\* The logs a file can hold: the i-th entry written has id i.
PersistedLogs ==
    UNION { { s \in [1..n -> Entries] : \A i \in 1..n : s[i].id = i }
            : n \in 0..MaxAppends }

InitRead ==
    /\ env = [kind |-> "array", smtpServers |-> RunningConfig.smtpServers]
    /\ cachedSmtpConfig = RunningConfig
    /\ parses = 1
    /\ pc = "started"
    /\ pendingRejection = FALSE
    /\ InitRespVars
    /\ bulk = NoBulk
    /\ \/ logFile = NoLogFile
       \/ \E s \in PersistedLogs, c \in BOOLEAN :
              logFile = [exists |-> TRUE, corrupt |-> c,
                         entries |-> IF c THEN <<>> ELSE s]
    /\ appender = [a \in Appenders |-> Idle]
    /\ nextId = Len(logFile.entries)
    /\ appended = {}

NextRead == HandleGetEmailLogs

\* get-email-logs calls in a server started over any log left on disk.
SpecRead == InitRead /\ [][NextRead]_vars

\* ------------------------------------------------------------------------
\* Tool calls (requestHandler.ts) over the email service (emailService.ts)
\* ------------------------------------------------------------------------

\* The responses and the outcome of the previous call are gone once the
\* server takes its next step.
ClearResponses ==
    /\ configResp' = NoResp
    /\ logsResp' = NoLogsResp
    /\ emailResp' = NoEmailResp
    /\ bulkResp' = NoBulkResp
    /\ lastCall' = NoCall

\* requestHandler.ts 42-50: the tool-call handler returns what the tool's
\* handler returns, and throws what it throws.
CallEnded(tool, resp) ==
    IF resp.outcome = "thrown" THEN Thrown(tool) ELSE Returned(tool, resp.success)

\* Relay lookup: the config with the given id, or the default one when no id
\* (0) is given.
RelayFound(servers, id) ==
    IF id = 0 THEN HasDefault(servers)
    ELSE \E i \in 1..Len(servers) : servers[i].id = id

\* Relay and template resolution, done once per request: it fails when the
\* configuration cannot be loaded, when no relay matches, or when the
\* template cannot be resolved.
ResolutionFails(configThrows, servers, id, hasTemplate, templateOk) ==
    \/ configThrows
    \/ ~RelayFound(servers, id)
    \/ hasTemplate /\ ~templateOk

\* logEmailActivity run without overlap and without a storage failure: read,
\* push, write (an unreadable file makes it return false).
AppendEntry(file, entry) ==
    IF ~file.corrupt
    THEN [exists |-> TRUE, corrupt |-> FALSE,
          entries |-> PushEntry(file.entries, entry)]
    ELSE file

\* Deliveries the bulk request in flight has still to attempt.
Pending ==
    IF bulk.state \in {"Dispatching", "Pausing"}
    THEN bulk.recipients - (bulk.next - 1)
    ELSE 0

\* A plausible slip: handleSendEmail without its try/catch.
SendEmailResponseNoCatch(threw, success, attempted) ==
    IF threw
    THEN [outcome |-> "thrown", success |-> FALSE, attempted |-> attempted]
    ELSE [outcome |-> "returned", success |-> success, attempted |-> attempted]

\* requestHandler.ts 121-169, handleSendEmail: the response to sendEmail
\* returning {success} or throwing.
SendEmailResponse(threw, success, attempted) ==
    IF threw
    THEN [outcome |-> "returned", success |-> FALSE, attempted |-> attempted]
    ELSE [outcome |-> "returned", success |-> success, attempted |-> attempted]

\* The send-email tool: handleSendEmail over sendEmail, which resolves the
\* relay and the template (raising when either fails), makes one delivery
\* attempt and appends its outcome to the audit log.
HandleSendEmail ==
    /\ pc = "started"
    /\ nextId + Pending < MaxRecipients
    /\ GetSmtpConfigsParses(cachedSmtpConfig) => parses < MaxParses
    /\ \E id \in 0..MaxServers, hasTemplate \in BOOLEAN, templateOk \in BOOLEAN,
          transportOk \in BOOLEAN :
           LET cache == GetSmtpConfigsCache(cachedSmtpConfig, env)
               threw == ResolutionFails(
                            GetSmtpConfigsThrows(cachedSmtpConfig, env),
                            cache.smtpServers, id, hasTemplate, templateOk)
               entry == [id |-> nextId + 1, timestamp |-> nextId + 1,
                         success |-> transportOk]
           IN  /\ ~hasTemplate => templateOk
               /\ threw => transportOk
               /\ cachedSmtpConfig' = cache
               /\ logFile' = IF threw THEN logFile
                             ELSE AppendEntry(logFile, entry)
               /\ nextId' = IF threw THEN nextId ELSE nextId + 1
               /\ appended' = IF threw \/ logFile.corrupt THEN appended
                              ELSE appended \cup {entry.id}
               /\ emailResp' = SendEmailResponse(threw, transportOk, ~threw)
    /\ parses' = IF GetSmtpConfigsParses(cachedSmtpConfig) THEN parses + 1 ELSE parses
    /\ lastCall' = CallEnded("send-email", emailResp')
    /\ configResp' = NoResp
    /\ logsResp' = NoLogsResp
    /\ bulkResp' = NoBulkResp
    /\ UNCHANGED <<env, pc, pendingRejection, appender, bulk>>

\* requestHandler.ts 174-191: handleSendBulkEmails builds the request and
\* calls sendBulkEmails, which validates it (a request without a recipient
\* list is refused), resolves the relay once and the template once (steps 1
\* and 2; a failure of either aborts) and, with recipients to serve, starts
\* on the first batch.
HandleSendBulkEmailsCall ==
    /\ pc = "started"
    /\ bulk.state = "Idle"
    /\ GetSmtpConfigsParses(cachedSmtpConfig) => parses < MaxParses
    /\ \E hasRecipients \in BOOLEAN, n \in 0..MaxRecipients, size \in 0..MaxBatch,
          id \in 0..MaxServers, hasTemplate \in BOOLEAN, templateOk \in BOOLEAN :
           LET cache == IF hasRecipients
                        THEN GetSmtpConfigsCache(cachedSmtpConfig, env)
                        ELSE cachedSmtpConfig
               threw == \/ ~hasRecipients
                        \/ ResolutionFails(
                               GetSmtpConfigsThrows(cachedSmtpConfig, env),
                               cache.smtpServers, id, hasTemplate, templateOk)
           IN  /\ ~hasRecipients => n = 0
               /\ ~hasTemplate => templateOk
               /\ nextId + n <= MaxRecipients
               /\ cachedSmtpConfig' = cache
               /\ parses' = IF hasRecipients /\ GetSmtpConfigsParses(cachedSmtpConfig)
                            THEN parses + 1 ELSE parses
               /\ bulk' = [state |-> IF threw THEN "Threw"
                                     ELSE IF n = 0 THEN "Completed"
                                     ELSE "Dispatching",
                           hasRecipients |-> hasRecipients, recipients |-> n,
                           batchSize |-> IF size = 0 THEN DefaultBatchSize ELSE size,
                           next |-> 1, inBatch |-> 0, pauses |-> 0,
                           totalSent |-> 0, totalFailed |-> 0, failures |-> <<>>]
    /\ ClearResponses
    /\ UNCHANGED <<env, pc, pendingRejection, logVars>>

\* A slip the engine must not make: a failed delivery ends the request.
AfterAttemptStopsOnFailure(b, transportOk) ==
    IF ~transportOk \/ b.next = b.recipients THEN "Completed"
    ELSE IF b.inBatch + 1 = b.batchSize THEN "Pausing"
    ELSE "Dispatching"

\* A slip the engine must not make: the next batch starts without a pause.
AfterAttemptSkipsPause(b, transportOk) ==
    IF b.next = b.recipients THEN "Completed"
    ELSE "Dispatching"

\* sendBulkEmails, step 4 and 6: where the request goes after an attempt,
\* whatever its outcome: on with the batch, to the pause before the next
\* batch, or to the end after the last recipient.
AfterAttempt(b, transportOk) ==
    IF b.next = b.recipients THEN "Completed"
    ELSE IF b.inBatch + 1 = b.batchSize THEN "Pausing"
    ELSE "Dispatching"

\* sendBulkEmails, steps 4 and 5: one delivery attempt to the next recipient
\* of the batch; its outcome is counted and appended to the audit log.
BulkDispatch ==
    /\ bulk.state = "Dispatching"
    /\ \E transportOk \in BOOLEAN :
           LET entry == [id |-> nextId + 1, timestamp |-> nextId + 1,
                         success |-> transportOk]
           IN  /\ bulk' = [bulk EXCEPT
                      !.state = AfterAttempt(bulk, transportOk),
                      !.next = @ + 1,
                      !.inBatch = @ + 1,
                      !.totalSent = IF transportOk THEN @ + 1 ELSE @,
                      !.totalFailed = IF transportOk THEN @ ELSE @ + 1,
                      !.failures = IF transportOk THEN @ ELSE Append(@, bulk.next)]
               /\ logFile' = AppendEntry(logFile, entry)
               /\ appended' = IF logFile.corrupt THEN appended
                              ELSE appended \cup {entry.id}
    /\ nextId' = nextId + 1
    /\ ClearResponses
    /\ UNCHANGED <<configVars, appender>>

\* sendBulkEmails, step 4: the pause between two batches has elapsed.
BulkPause ==
    /\ bulk.state = "Pausing"
    /\ bulk' = [bulk EXCEPT !.state = "Dispatching", !.inBatch = 0,
                             !.pauses = @ + 1]
    /\ ClearResponses
    /\ UNCHANGED <<configVars, logVars>>

\* sendBulkEmails, steps 5-7: the BulkResult of a completed request.
BulkResult(b) ==
    [success |-> b.totalFailed = 0, totalSent |-> b.totalSent,
     totalFailed |-> b.totalFailed, failures |-> b.failures]

\* A plausible slip: the catch reports no failed recipients.
BulkCatchResponseZero(b) ==
    [outcome |-> "returned", success |-> FALSE, totalSent |-> 0,
     totalFailed |-> 0,
     hasFailures |-> FALSE, failures |-> <<>>,
     aborted |-> TRUE, recipients |-> b.recipients, attempts |-> b.next - 1]

\* requestHandler.ts 208-225: the response when sendBulkEmails throws;
\* totalFailed is parameters.recipients?.length || 0.
BulkCatchResponse(b) ==
    [outcome |-> "returned", success |-> FALSE, totalSent |-> 0,
     totalFailed |-> IF b.hasRecipients THEN b.recipients ELSE 0,
     hasFailures |-> FALSE, failures |-> <<>>,
     aborted |-> TRUE, recipients |-> b.recipients, attempts |-> b.next - 1]

\* A plausible slip: the response reports the sent count as the failed count.
BulkReturnResponseMixed(b, result) ==
    [outcome |-> "returned", success |-> result.success,
     totalSent |-> result.totalSent, totalFailed |-> result.totalSent,
     hasFailures |-> TRUE, failures |-> result.failures,
     aborted |-> FALSE, recipients |-> b.recipients, attempts |-> b.next - 1]

\* requestHandler.ts 193-207: the response built from sendBulkEmails' result.
BulkReturnResponse(b, result) ==
    [outcome |-> "returned", success |-> result.success,
     totalSent |-> result.totalSent, totalFailed |-> result.totalFailed,
     hasFailures |-> TRUE, failures |-> result.failures,
     aborted |-> FALSE, recipients |-> b.recipients, attempts |-> b.next - 1]

\* requestHandler.ts 191-225: sendBulkEmails has returned or thrown and
\* handleSendBulkEmails answers.
HandleSendBulkEmailsReturn ==
    /\ bulk.state \in {"Completed", "Threw"}
    /\ bulkResp' = IF bulk.state = "Threw"
                   THEN BulkCatchResponse(bulk)
                   ELSE BulkReturnResponse(bulk, BulkResult(bulk))
    /\ bulk' = NoBulk
    /\ lastCall' = CallEnded("send-bulk-emails", bulkResp')
    /\ configResp' = NoResp
    /\ logsResp' = NoLogsResp
    /\ emailResp' = NoEmailResp
    /\ UNCHANGED <<configVars, logVars>>

\* requestHandler.ts 36-39: a tool that is not registered.
CallUnknownTool ==
    /\ pc = "started"
    /\ lastCall' = Thrown("unknown")
    /\ configResp' = NoResp
    /\ logsResp' = NoLogsResp
    /\ emailResp' = NoEmailResp
    /\ bulkResp' = NoBulkResp
    /\ UNCHANGED <<configVars, logVars, bulk>>

\* The configurations the tool-call specification starts from.
RunEnvs ==
    { e \in Envs : /\ e.kind \in {"unset", "array"}
                   /\ Len(e.smtpServers) <= 2
                   /\ \A i \in 1..Len(e.smtpServers) :
                          e.smtpServers[i].secure /\ ~e.smtpServers[i].isDefault }

\* A started server: runServer has run getSmtpConfigs once.
Init ==
    /\ env \in RunEnvs
    /\ cachedSmtpConfig = GetSmtpConfigsCache(NullConfig, env)
    /\ parses = 1
    /\ pc = "started"
    /\ pendingRejection = FALSE
    /\ InitLogVars
    /\ InitRespVars
    /\ bulk = NoBulk

Next ==
    \/ HandleSendEmail
    \/ HandleSendBulkEmailsCall
    \/ BulkDispatch
    \/ BulkPause
    \/ HandleSendBulkEmailsReturn
    \/ HandleGetSmtpConfigs
    \/ HandleGetEmailLogs
    \/ CallUnknownTool

Spec == Init /\ [][Next]_vars

\* An attempt settles (the relay answers or times out), the pause timer
\* fires, and the handler's return is not held up.
Fairness ==
    /\ WF_vars(BulkDispatch)
    /\ WF_vars(BulkPause)
    /\ WF_vars(HandleSendBulkEmailsReturn)

FairSpec == Spec /\ Fairness

\* ========================================================================
\* Properties
\* ========================================================================

InvalidEnv == parseSmtpConfigFromEnv(env).threw

\* C3 (as stated): after load-time normalization exactly one relay config of
\* the active set carries the default flag, whatever flags were loaded.
C3_ExactlyOneDefault ==
    cachedSmtpConfig.loaded => NumDefaults(cachedSmtpConfig.smtpServers) = 1

\* C3 (amended): after load-time normalization at least one relay config of
\* the active set carries the default flag, and exactly one does whenever at
\* most one of the loaded configs carried it.
C3_AtLeastOneDefault ==
    cachedSmtpConfig.loaded =>
        /\ NumDefaults(cachedSmtpConfig.smtpServers) >= 1
        /\ NumDefaults(env.smtpServers) <= 1
               => NumDefaults(cachedSmtpConfig.smtpServers) = 1
        /\ NumDefaults(env.smtpServers) >= 1
               => NumDefaults(cachedSmtpConfig.smtpServers)
                      = NumDefaults(env.smtpServers)

C3_Witness ==
    /\ cachedSmtpConfig.loaded
    /\ Len(env.smtpServers) >= 2
    /\ NumDefaults(env.smtpServers) = 0
    /\ NumDefaults(cachedSmtpConfig.smtpServers) = 1

\* C4: when none of the N >= 1 loaded configs is marked default, the first
\* in load order is promoted, it is then the only default, and every other
\* config and every other field is as loaded.
C4_FirstPromoted ==
    (cachedSmtpConfig.loaded /\ ~HasDefault(env.smtpServers)) =>
        LET loaded == env.smtpServers
            active == cachedSmtpConfig.smtpServers
        IN  /\ Len(active) = Len(loaded)
            /\ active[1].isDefault
            /\ active[1].id = loaded[1].id
            /\ active[1].secure = loaded[1].secure
            /\ \A i \in 2..Len(active) : active[i] = loaded[i]
            /\ \A i \in 1..Len(active) : active[i].isDefault <=> i = 1

C4_Witness ==
    /\ cachedSmtpConfig.loaded
    /\ ~HasDefault(env.smtpServers)
    /\ Len(env.smtpServers) = MaxServers
    /\ cachedSmtpConfig.smtpServers[1].isDefault
    /\ ~cachedSmtpConfig.smtpServers[MaxServers].isDefault

\* C6 (as stated): with a missing, non-array or empty relay set the server
\* never reaches "started successfully", and no get-smtp-configs call returns
\* a successful response with an empty list.
C6_InvalidConfigFailsStartup ==
    InvalidEnv =>
        /\ pc # "started"
        /\ ~(configResp.outcome = "returned" /\ configResp.success
             /\ configResp.configs = <<>>)

EntrySet(logs) == { logs[i] : i \in 1..Len(logs) }

NoRepeat(logs) == Cardinality(EntrySet(logs)) = Len(logs)

NewestFirst(logs) ==
    \A i \in 1..(Len(logs) - 1) : logs[i].timestamp >= logs[i + 1].timestamp

\* The persisted entries a get-email-logs request asks for.
Matching(resp) ==
    { e \in EntrySet(resp.persisted) :
          resp.hasFilter => e.success = resp.filterBySuccess }

\* C1 (as stated): once all overlapping logEmailActivity calls have returned,
\* every entry whose call reported success is in the persisted log.
C1_NoAppendLost ==
    ((\A a \in Appenders : appender[a].at = "idle") /\ ~logFile.corrupt) =>
        \A id \in appended :
            \E i \in 1..Len(logFile.entries) : logFile.entries[i].id = id

\* The K most recent of the matching entries, newest first.
MostRecent(resp, k) ==
    /\ NoRepeat(resp.result)
    /\ EntrySet(resp.result) \subseteq Matching(resp)
    /\ NewestFirst(resp.result)
    /\ Len(resp.result) =
           IF k < Cardinality(Matching(resp)) THEN k
           ELSE Cardinality(Matching(resp))
    /\ \A e \in Matching(resp) \ EntrySet(resp.result) :
           \A r \in EntrySet(resp.result) : e.timestamp <= r.timestamp

C7_FilterBySuccess ==
    (logsResp.outcome = "returned" /\ logsResp.readOk /\ ~logsResp.hasLimit) =>
        /\ logsResp.success
        /\ NoRepeat(logsResp.result)
        /\ NewestFirst(logsResp.result)
        /\ logsResp.hasFilter =>
               EntrySet(logsResp.result) =
                   { e \in EntrySet(logsResp.persisted) :
                         e.success = logsResp.filterBySuccess }
        /\ ~logsResp.hasFilter =>
               EntrySet(logsResp.result) = EntrySet(logsResp.persisted)

C7_Witness ==
    /\ logsResp.outcome = "returned" /\ logsResp.readOk /\ ~logsResp.hasLimit
    /\ logsResp.hasFilter /\ ~logsResp.filterBySuccess
    /\ Len(logsResp.result) = 2
    /\ Len(logsResp.persisted) = 3
    /\ ~NewestFirst(logsResp.persisted)
    /\ logsResp.result[1].id > logsResp.result[2].id

\* C5: every invocation of one of the four tools through the tool-call
\* handler ends by returning a response that carries a success flag; nothing
\* is thrown out of the handler, whatever the collaborator did.
C5_StructuredResponse ==
    lastCall.tool \in ToolNames =>
        /\ lastCall.outcome = "returned"
        /\ lastCall.flag \in {"true", "false"}

C5_Witness ==
    /\ lastCall = Returned("send-email", FALSE)
    /\ emailResp.outcome = "returned"
    /\ ~emailResp.attempted
    /\ cachedSmtpConfig.loaded

\* C8: when sendBulkEmails raises before any send (relay or template
\* resolution failed), the response reports success=false, totalSent=0 and
\* totalFailed = the number of recipients of the request, and no delivery
\* attempt has been made.
C8_AbortedBulk ==
    (bulkResp.outcome = "returned" /\ bulkResp.aborted) =>
        /\ ~bulkResp.success
        /\ bulkResp.totalSent = 0
        /\ bulkResp.totalFailed = bulkResp.recipients
        /\ bulkResp.attempts = 0

C8_Witness ==
    /\ bulkResp.outcome = "returned" /\ bulkResp.aborted
    /\ bulkResp.recipients = MaxRecipients
    /\ bulkResp.totalFailed = MaxRecipients
    /\ lastCall = Returned("send-bulk-emails", FALSE)

\* C9: for every completed bulk request over N recipients, with any batch
\* size and any pattern of transport failures, totalSent + totalFailed = N,
\* the failures list has totalFailed entries, and success holds exactly when
\* totalFailed = 0.
C9_BulkTotals ==
    (bulkResp.outcome = "returned" /\ ~bulkResp.aborted) =>
        /\ bulkResp.totalSent + bulkResp.totalFailed = bulkResp.recipients
        /\ bulkResp.hasFailures
        /\ Len(bulkResp.failures) = bulkResp.totalFailed
        /\ bulkResp.success <=> bulkResp.totalFailed = 0
        /\ bulkResp.attempts = bulkResp.recipients

C9_Witness ==
    /\ bulkResp.outcome = "returned" /\ ~bulkResp.aborted
    /\ bulkResp.recipients = MaxRecipients
    /\ bulkResp.totalFailed = 2
    /\ bulkResp.totalSent = MaxRecipients - 2
    /\ ~bulkResp.success

\* C10: a bulk request that has passed relay and template resolution always
\* reaches Completed, and by then a delivery has been attempted for every
\* recipient: a failed attempt stops neither the batch nor the later batches.
C10_EveryRecipientAttempted ==
    /\ [](bulk.state = "Completed" => bulk.next = bulk.recipients + 1)
    /\ (bulk.state = "Dispatching") ~> (bulk.state = "Completed")

C10_Witness ==
    /\ bulk.state = "Completed"
    /\ bulk.recipients = MaxRecipients
    /\ bulk.batchSize < bulk.recipients
    /\ bulk.next = bulk.recipients + 1
    /\ bulk.totalFailed >= 1
    /\ bulk.failures[1] = 1
    /\ bulk.totalSent >= 1

\* C12 (as stated): relay configuration is parsed at most once per process:
\* after the first lookup no later lookup runs the parser again, and a lookup
\* that answers returns the cached set.
C12_ParsedAtMostOnce ==
    /\ parses <= 1
    /\ (configResp.outcome = "returned" /\ configResp.success) =>
           /\ cachedSmtpConfig.loaded
           /\ configResp.configs = cachedSmtpConfig.smtpServers

\* The logEmailActivity call of caller a returns false at this step.
ReturnsFalse(a) ==
    /\ appender[a].at # "idle"
    /\ appender'[a].at = "idle"
    /\ appender[a].entry.id \notin appended'

\* C13 (as stated): whichever storage step fails (creating the directory,
\* reading the log, writing the log), logEmailActivity returns false and the
\* previously persisted entries (what getEmailLogs reads back) are left
\* unchanged.
C13_FailedAppendKeepsLog ==
    [][\A a \in Appenders :
           ReturnsFalse(a) => getEmailLogs(logFile') = getEmailLogs(logFile)]_vars

\* The batch (counted from 0) of the k-th recipient of the request in flight.
BatchOf(k) == (k - 1) \div bulk.batchSize

\* Deliveries of the request in flight that have settled.
Settled == bulk.totalSent + bulk.totalFailed

\* C11: batches are dispatched in list order without overlap: a delivery of
\* batch i starts only when every delivery of the batches before it has
\* settled and i pauses have elapsed; a pause begins only after a whole batch
\* has settled and with recipients left; and a completed request has paused
\* after every batch except the last.
C11_BatchesInOrder ==
    /\ bulk.state = "Dispatching" =>
           /\ bulk.next <= bulk.recipients
           /\ Settled = bulk.next - 1
           /\ bulk.pauses = BatchOf(bulk.next)
           /\ bulk.inBatch = (bulk.next - 1) % bulk.batchSize
    /\ bulk.state = "Pausing" =>
           /\ bulk.next <= bulk.recipients
           /\ Settled = bulk.next - 1
           /\ bulk.inBatch = bulk.batchSize
           /\ bulk.pauses = BatchOf(bulk.next) - 1
    /\ (bulk.state = "Completed" /\ bulk.recipients >= 1) =>
           /\ Settled = bulk.recipients
           /\ bulk.pauses = BatchOf(bulk.recipients)

C11_Witness ==
    /\ bulk.state = "Completed"
    /\ bulk.recipients = MaxRecipients
    /\ bulk.batchSize = 2
    /\ bulk.pauses = BatchOf(MaxRecipients)
    /\ bulk.pauses >= 1
    /\ bulk.totalFailed >= 1

====
